---------------------------- MODULE Spec2Model ----------------------------
(***************************************************************************)
(* A model of the hardware-fingerprint identifier generator                *)
(* (src/uniqueUserID/main.mjs, class UniqueUserIDGenerator).               *)
(*                                                                         *)
(* Strings are TLA+ strings; the character at position i of s is           *)
(* SubSeq(s, i, i).  The storage file, the home directory and the machine  *)
(* (platform, probe commands, memory size) are the environment; the        *)
(* generator's only field is userID.                                       *)
(***************************************************************************)
EXTENDS Integers, Sequences, FiniteSets, TLC

(***************************************************************************)
(* Bounds of the model.                                                    *)
(***************************************************************************)
\* Number of distinct memory sizes the machine can be changed between.
MaxHW == 2

\* Largest number of a platform's probe commands that fail on the machine.
MaxFailing == 1

(***************************************************************************)
(* Characters and JavaScript string primitives.                            *)
(***************************************************************************)
\* The printable ASCII characters 32..95 and 97..126, in code order.
PrintableLow ==
    " !\"#$%&'()*+,-./0123456789:;<=>?@ABCDEFGHIJKLMNOPQRSTUVWXYZ[\\]^_"

PrintableHigh == "abcdefghijklmnopqrstuvwxyz{|}~"

CharAt(s, i) == SubSeq(s, i, i)

\* String.prototype.charCodeAt for the characters the model uses, as a
\* table from character to code.
RECURSIVE CodesOf(_, _, _, _)
CodesOf(s, base, lo, hi) ==
    IF lo = hi THEN CharAt(s, lo) :> (base + lo)
    ELSE CodesOf(s, base, lo, (lo + hi) \div 2)
            @@ CodesOf(s, base, (lo + hi) \div 2 + 1, hi)

CharCode ==
    CodesOf(PrintableLow, 31, 1, Len(PrintableLow))
        @@ CodesOf(PrintableHigh, 96, 1, Len(PrintableHigh))
        @@ ("\t" :> 9) @@ ("\n" :> 10) @@ ("\r" :> 13)

IsSpace(c) == c \in {" ", "\t", "\n", "\r"}

\* String.prototype.trim: strips leading and trailing white space.
trim(s) ==
    LET keep == {i \in 1..Len(s) : ~IsSpace(CharAt(s, i))}
    IN  IF keep = {} THEN ""
        ELSE SubSeq(s, CHOOSE i \in keep : \A j \in keep : i <= j,
                       CHOOSE i \in keep : \A j \in keep : i >= j)

\* String.prototype.split(sep) for a non-empty separator: the pieces of s
\* between the occurrences of sep, found left to right.
Matches(s, sep, from) ==
    {i \in from..(Len(s) - Len(sep) + 1) : SubSeq(s, i, i + Len(sep) - 1) = sep}

RECURSIVE SplitFrom(_, _, _)
SplitFrom(s, sep, start) ==
    IF Matches(s, sep, start) = {}
    THEN <<SubSeq(s, start, Len(s))>>
    ELSE LET i == CHOOSE m \in Matches(s, sep, start) :
                      \A n \in Matches(s, sep, start) : m <= n
         IN  <<SubSeq(s, start, i - 1)>> \o SplitFrom(s, sep, i + Len(sep))

split(s, sep) == SplitFrom(s, sep, 1)

\* parts[1] || '' in JavaScript (index 1 is the second element): the
\* second piece, or '' when it is missing (undefined) or empty.
SecondOrEmpty(parts) == IF Len(parts) >= 2 THEN parts[2] ELSE ""

\* s < t in JavaScript's string order (by UTF-16 code unit).
RECURSIVE StrLess(_, _)
StrLess(s, t) ==
    IF Len(t) = 0 THEN FALSE
    ELSE IF Len(s) = 0 THEN TRUE
    ELSE IF CharAt(s, 1) = CharAt(t, 1) THEN StrLess(Tail(s), Tail(t))
    ELSE CharCode[CharAt(s, 1)] < CharCode[CharAt(t, 1)]

(***************************************************************************)
(* Array.prototype.sort() with the default comparator: ascending in string *)
(* order, stable.                                                          *)
(***************************************************************************)
RECURSIVE InsertSorted(_, _)
InsertSorted(x, sorted) ==
    IF sorted = <<>> THEN <<x>>
    ELSE IF StrLess(x, Head(sorted)) THEN <<x>> \o sorted
    ELSE <<Head(sorted)>> \o InsertSorted(x, Tail(sorted))

RECURSIVE sort(_)
sort(a) ==
    IF a = <<>> THEN <<>>
    ELSE InsertSorted(a[Len(a)], sort(SubSeq(a, 1, Len(a) - 1)))

(***************************************************************************)
(* JSON.stringify of the fingerprint object.  An object is the sequence of *)
(* its entries in insertion order; an entry is [k, t, v] with t the type   *)
(* of the value: "s" string, "n" number, "a" array of strings.             *)
(***************************************************************************)
EscapeChar(c) ==
    IF c = "\"" THEN "\\\""
    ELSE IF c = "\\" THEN "\\\\"
    ELSE IF c = "\n" THEN "\\n"
    ELSE IF c = "\r" THEN "\\r"
    ELSE IF c = "\t" THEN "\\t"
    ELSE c

RECURSIVE Escape(_)
Escape(s) ==
    IF Len(s) = 0 THEN ""
    ELSE IF Len(s) = 1 THEN EscapeChar(s)
    ELSE Escape(SubSeq(s, 1, Len(s) \div 2))
            \o Escape(SubSeq(s, Len(s) \div 2 + 1, Len(s)))

Quote(s) == "\"" \o Escape(s) \o "\""

RECURSIVE JoinQuoted(_)
JoinQuoted(a) ==
    IF a = <<>> THEN ""
    ELSE IF Len(a) = 1 THEN Quote(a[1])
    ELSE Quote(a[1]) \o "," \o JoinQuoted(Tail(a))

StringifyValue(e) ==
    IF e.t = "s" THEN Quote(e.v)
    ELSE IF e.t = "n" THEN ToString(e.v)
    ELSE "[" \o JoinQuoted(e.v) \o "]"

RECURSIVE StringifyEntries(_)
StringifyEntries(obj) ==
    IF obj = <<>> THEN ""
    ELSE Quote(Head(obj).k) \o ":" \o StringifyValue(Head(obj))
            \o (IF Len(obj) > 1 THEN "," ELSE "")
            \o StringifyEntries(Tail(obj))

JSONstringify(obj) == "{" \o StringifyEntries(obj) \o "}"

(***************************************************************************)
(* hashString: crypto.createHash('sha256').update(str).digest('hex').      *)
(* SHA-256 itself is not computed.  The stand-in keeps what the program    *)
(* relies on: the digest is a function of every character of the input, in *)
(* order, and is rendered as 64 lowercase hexadecimal characters.          *)
(***************************************************************************)
HexDigits == "0123456789abcdef"

\* Length of a SHA-256 digest in hexadecimal characters.
DigestLen == 64

\* <<h, p>> for the characters lo..hi of str: h is the polynomial
\* sum of their codes and p the multiplier's power, both modulo `modulus'.
RECURSIVE Absorb(_, _, _, _, _)
Absorb(str, lo, hi, mult, modulus) ==
    IF lo > hi THEN <<0, 1>>
    ELSE IF lo = hi THEN <<CharCode[CharAt(str, lo)] % modulus, mult % modulus>>
    ELSE LET mid == (lo + hi) \div 2
             l == Absorb(str, lo, mid, mult, modulus)
             r == Absorb(str, mid + 1, hi, mult, modulus)
         IN  <<(l[1] * r[2] + r[1]) % modulus, (l[2] * r[2]) % modulus>>

RECURSIVE Squeeze(_, _)
Squeeze(g, n) ==
    IF n = 0 THEN ""
    ELSE LET g2 == (g * 75 + 74) % 65537
         IN  CharAt(HexDigits, (g2 % 16) + 1) \o Squeeze(g2, n - 1)

hashString(str) ==
    Squeeze(Absorb(str, 1, Len(str), 31, 46337)[1] + Len(str), DigestLen \div 2)
        \o Squeeze(Absorb(str, 1, Len(str), 37, 46327)[1] + 3 * Len(str) + 7,
                   DigestLen \div 2)

IsHexDigest(s) ==
    /\ Len(s) = DigestLen
    /\ \A i \in 1..Len(s) : \E j \in 1..Len(HexDigits) : CharAt(s, i) = CharAt(HexDigits, j)


(***************************************************************************)
(* The machine: what the os module and the probe commands report.          *)
(***************************************************************************)
Platforms == {"win32", "linux", "darwin", "freebsd"}

\* os.totalmem() of the machine's possible memory configurations.
MemSizes == {k * 536870912 : k \in 1..MaxHW}

\* os.networkInterfaces(): interface names in enumeration order, each with
\* its address entries.
NetworkInterfaces ==
    << [name |-> "lo",
        addrs |-> << [mac |-> "00:00:00:00:00:00", internal |-> TRUE] >>],
       [name |-> "wlan0",
        addrs |-> << [mac |-> "b8:27:eb:00:00:02", internal |-> FALSE] >>],
       [name |-> "eth0",
        addrs |-> << [mac |-> "02:42:ac:11:00:02", internal |-> FALSE],
                     [mac |-> "02:42:ac:11:00:02", internal |-> FALSE] >>],
       [name |-> "tun0",
        addrs |-> << [mac |-> "00:00:00:00:00:00", internal |-> FALSE] >>] >>

\* The results of the os module's calls on a machine of platform p with
\* mem bytes of memory.
OsOf(p, mem) ==
    [platform |-> p,
     release  |-> IF p = "win32" THEN "10.0.19045" ELSE "6.1.0",
     type     |-> IF p = "win32" THEN "Windows_NT"
                  ELSE IF p = "linux" THEN "Linux"
                  ELSE IF p = "darwin" THEN "Darwin" ELSE "FreeBSD",
     arch     |-> "x64",
     cpus     |-> IF p = "freebsd" THEN <<>>
                  ELSE << [model |-> "Intel(R) Core(TM) i7"],
                          [model |-> "Intel(R) Core(TM) i7"] >>,
     totalmem |-> mem,
     hostname |-> "host-1",
     networkInterfaces |-> NetworkInterfaces,
     homedir  |-> IF p = "win32" THEN "C:\\Users\\u" ELSE "/home/u"]

\* The probe commands of each platform in the order the code runs them:
\* the command line, the info field it feeds, how its output is parsed
\* ("line2": split('\n')[1] || '', "raw": the trimmed output, "colon2":
\* split(': ')[1] || '') and the output the command prints when it succeeds.
Commands(p) ==
    IF p = "win32" THEN
        << [cmd |-> "wmic diskdrive get SerialNumber", field |-> "diskSerial",
            parse |-> "line2", out |-> "SerialNumber  \r\r\nWD-WX11A  \r\r\n"],
           [cmd |-> "wmic bios get SerialNumber", field |-> "biosSerial",
            parse |-> "line2", out |-> "SerialNumber  \r\r\n\r\r\n"],
           [cmd |-> "wmic csproduct get UUID", field |-> "motherboardUUID",
            parse |-> "line2", out |-> "UUID\n4C4C4544-0042\n"],
           [cmd |-> "wmic cpu get ProcessorId", field |-> "cpuId",
            parse |-> "line2", out |-> "ProcessorId\nBFEBFBFF000906EA\n"] >>
    ELSE IF p = "linux" THEN
        << [cmd |-> "cat /sys/class/dmi/id/product_uuid 2>/dev/null",
            field |-> "systemUUID", parse |-> "raw",
            out |-> "4c4c4544-0042-3510\n"],
           [cmd |-> "cat /sys/class/dmi/id/board_serial 2>/dev/null",
            field |-> "motherboardSerial", parse |-> "raw",
            out |-> "/7XK2B03/CN12\n"],
           [cmd |-> "cat /proc/cpuinfo | grep -m 1 \"physical id\" && cat /proc/cpuinfo | grep -m 1 \"serial\" && cat /proc/cpuinfo | grep -m 1 \"Hardware\"",
            field |-> "cpuDetails", parse |-> "raw",
            out |-> "physical id\t: 0\nSerial\t: 10ab\nHardware\t: BCM2835\n"],
           [cmd |-> "lsblk -no UUID $(findmnt -n -o SOURCE /)",
            field |-> "mainDiskUUID", parse |-> "raw",
            out |-> "0a3407de-014b\n"] >>
    ELSE IF p = "darwin" THEN
        << [cmd |-> "system_profiler SPHardwareDataType | grep \"Hardware UUID\"",
            field |-> "hardwareUUID", parse |-> "colon2",
            out |-> "      Hardware UUID: 8D7D-4F2A\n"],
           [cmd |-> "system_profiler SPHardwareDataType | grep \"Serial Number\"",
            field |-> "serialNumber", parse |-> "colon2",
            out |-> "      Serial Number (system): C02XK\n"],
           [cmd |-> "system_profiler SPHardwareDataType | grep \"Model Identifier\"",
            field |-> "modelIdentifier", parse |-> "colon2",
            out |-> "      Model Identifier:\n"] >>
    ELSE <<>>

NumCommands(p) == Len(Commands(p))

(***************************************************************************)
(* getNetworkMACs: the MAC of every entry that is not internal and not the *)
(* all-zero placeholder, in enumeration order, then sorted.                *)
(***************************************************************************)
RECURSIVE MacsOfEntries(_)
MacsOfEntries(addrs) ==
    IF addrs = <<>> THEN <<>>
    ELSE (IF ~Head(addrs).internal /\ Head(addrs).mac # "00:00:00:00:00:00"
          THEN <<Head(addrs).mac>> ELSE <<>>)
            \o MacsOfEntries(Tail(addrs))

RECURSIVE MacsOfInterfaces(_)
MacsOfInterfaces(ifs) ==
    IF ifs = <<>> THEN <<>>
    ELSE MacsOfEntries(Head(ifs).addrs)
            \o MacsOfInterfaces(Tail(ifs))

\* A variant of getNetworkMACs that returns the MACs in enumeration order.
getNetworkMACs_Unsorted(ifs) == MacsOfInterfaces(ifs)

getNetworkMACs(ifs) == sort(MacsOfInterfaces(ifs))

(***************************************************************************)
(* getSystemInfo: the universal fields, then the platform's probes inside  *)
(* one try block: the first command that fails ends the block.             *)
(***************************************************************************)
\* The value an info field gets from a command's output.
ParseOutput(parse, out) ==
    IF parse = "line2" THEN SecondOrEmpty(split(trim(out), "\n"))
    ELSE IF parse = "colon2" THEN SecondOrEmpty(split(trim(out), ": "))
    ELSE trim(out)

UniversalInfo(os) ==
    << [k |-> "platform",   t |-> "s", v |-> os.platform],
       [k |-> "release",    t |-> "s", v |-> os.release],
       [k |-> "type",       t |-> "s", v |-> os.type],
       [k |-> "arch",       t |-> "s", v |-> os.arch],
       [k |-> "cpus",       t |-> "n", v |-> Len(os.cpus)],
       [k |-> "cpuModel",   t |-> "s",
        v |-> IF os.cpus = <<>> THEN "" ELSE os.cpus[1].model],
       [k |-> "totalMemory", t |-> "n", v |-> os.totalmem],
       [k |-> "hostname",   t |-> "s", v |-> os.hostname],
       [k |-> "networkInterfaces", t |-> "a",
        v |-> getNetworkMACs(os.networkInterfaces)],
       [k |-> "homedir",    t |-> "s", v |-> os.homedir] >>

\* A variant of TryProbes that catches each command's failure on its own and
\* records the empty string for its field.
RECURSIVE TryProbes_EmptyOnFailure(_, _, _)
TryProbes_EmptyOnFailure(cmds, ok, i) ==
    IF i > Len(cmds) THEN <<>>
    ELSE << [k |-> cmds[i].field, t |-> "s",
             v |-> IF ok[i] THEN ParseOutput(cmds[i].parse, cmds[i].out)
                   ELSE ""] >>
            \o TryProbes_EmptyOnFailure(cmds, ok, i + 1)

\* The statements of a try block from the i-th command on; ok[i] tells
\* whether execSync of the i-th command succeeds (it throws otherwise).
RECURSIVE TryProbes(_, _, _)
TryProbes(cmds, ok, i) ==
    IF i > Len(cmds) THEN <<>>
    ELSE IF ~ok[i] THEN <<>>
    ELSE << [k |-> cmds[i].field, t |-> "s",
             v |-> ParseOutput(cmds[i].parse, cmds[i].out)] >>
            \o TryProbes(cmds, ok, i + 1)

getSystemInfo(os, ok) ==
    UniversalInfo(os) \o TryProbes(Commands(os.platform), ok, 1)

\* The keys of an object, in insertion order.
Keys(obj) == [i \in 1..Len(obj) |-> obj[i].k]


(***************************************************************************)
(* Lines 152-159 of generateID: collect the fingerprint, serialize it and  *)
(* hash it.  The result is a function of the machine alone, so the model   *)
(* tabulates it once for every machine instead of recomputing it at every  *)
(* call.                                                                   *)
(***************************************************************************)
CollectAndHash(os, ok) ==
    LET systemInfo == getSystemInfo(os, ok)
        infoString == JSONstringify(systemInfo)
    IN  [keys |-> Keys(systemInfo), id |-> hashString(infoString)]

\* The digests of the machines of platform p with probe outcomes ok, by
\* memory size, with their values computed.
RECURSIVE FingerprintsByMem(_, _, _)
FingerprintsByMem(p, ok, sizes) ==
    IF sizes = {} THEN <<>>
    ELSE LET mem == CHOOSE m \in sizes : TRUE
         IN  (mem :> CollectAndHash(OsOf(p, mem), ok))
                 @@ FingerprintsByMem(p, ok, sizes \ {mem})

RECURSIVE FingerprintsByOutcome(_, _)
FingerprintsByOutcome(p, outcomes) ==
    IF outcomes = {} THEN <<>>
    ELSE LET ok == CHOOSE o \in outcomes : TRUE
         IN  (ok :> FingerprintsByMem(p, ok, MemSizes))
                 @@ FingerprintsByOutcome(p, outcomes \ {ok})

RECURSIVE FingerprintsByPlatform(_)
FingerprintsByPlatform(platforms) ==
    IF platforms = {} THEN <<>>
    ELSE LET p == CHOOSE q \in platforms : TRUE
         IN  (p :> FingerprintsByOutcome(p, [1..NumCommands(p) -> BOOLEAN]))
                 @@ FingerprintsByPlatform(platforms \ {p})

FingerprintTable == FingerprintsByPlatform(Platforms)

Fingerprint(os, ok) == FingerprintTable[os.platform][ok][os.totalmem]

(***************************************************************************)
(* The file system: the storage file <home>/.unique_hw_id and the home     *)
(* directory.  A file is [exists, content, mode]; the process is not       *)
(* privileged, so the owner's permission bits decide what it may do.  A    *)
(* call that fails throws and leaves the file as it was.                   *)
(***************************************************************************)
\* The mode generateID asks for when it creates the file: 0o600.
StorageMode == 384

NoFile == [exists |-> FALSE, content |-> "", mode |-> 0]

\* Owner-only read/write, write-only and no access: 0o600, 0o200, 0o000.
FileModes == {StorageMode, 128, 0}

Readable(mode) == (mode \div 256) % 2 = 1

Writable(mode) == (mode \div 128) % 2 = 1

\* Content the file can be given from outside the program.
ExternalContents == {"", "abc123\n"}

existsSync(f) == f.exists

\* fs.readFileSync(path, 'utf8'): the content, or an exception.
readFileSync(f) ==
    IF f.exists /\ Readable(f.mode)
    THEN [ok |-> TRUE, data |-> f.content]
    ELSE [ok |-> FALSE, data |-> ""]

\* A variant of writeFileSync that adds the data at the end of an existing
\* file (flag 'a').
writeFileSync_Append(f, dirWritable, data, mode) ==
    IF f.exists
    THEN IF Writable(f.mode)
         THEN [ok |-> TRUE, file |-> [f EXCEPT !.content = @ \o data]]
         ELSE [ok |-> FALSE, file |-> f]
    ELSE IF dirWritable
         THEN [ok |-> TRUE,
               file |-> [exists |-> TRUE, content |-> data, mode |-> mode]]
         ELSE [ok |-> FALSE, file |-> f]

\* fs.writeFileSync(path, data, {mode}): replaces the content of an existing
\* writable file (its mode stays), or creates the file with the given mode
\* in a writable directory; throws otherwise.
writeFileSync(f, dirWritable, data, mode) ==
    IF f.exists
    THEN IF Writable(f.mode)
         THEN [ok |-> TRUE, file |-> [f EXCEPT !.content = data]]
         ELSE [ok |-> FALSE, file |-> f]
    ELSE IF dirWritable
         THEN [ok |-> TRUE,
               file |-> [exists |-> TRUE, content |-> data, mode |-> mode]]
         ELSE [ok |-> FALSE, file |-> f]

(***************************************************************************)
(* The generator's methods as functions of what they read: the storage     *)
(* file f, the home directory, the machine (os, ok).  The result records   *)
(* what the call did: the value returned (<<v>>, or <<>> when the call     *)
(* threw), the file and the userID field it leaves, and the calls it made. *)
(***************************************************************************)
null == <<>>

\* A variant of ComputeAndSave that creates the file without the mode
\* option (0o644 under the usual umask).
ComputeAndSave_DefaultMode(f, dirWritable, os, ok, read, log) ==
    LET fp == Fingerprint(os, ok)
        w  == writeFileSync(f, dirWritable, fp.id, 420)
    IN  [ret    |-> <<fp.id>>,
         threw  |-> FALSE,
         userID |-> <<fp.id>>,
         file   |-> w.file,
         probed |-> TRUE,
         keys   |-> fp.keys,
         read   |-> read,
         wrote  |-> IF w.ok THEN "ok" ELSE "error",
         log    |-> IF w.ok THEN log
                    ELSE Append(log, "Error al guardar ID en archivo:")]

\* A variant of ComputeAndSave that hashes the fingerprint together with a
\* value of the call (here the outcome of the read attempt), as a seed would.
ComputeAndSave_Salted(f, dirWritable, os, ok, read, log) ==
    LET fp == Fingerprint(os, ok)
        id == hashString(fp.id \o read)
        w  == writeFileSync(f, dirWritable, id, StorageMode)
    IN  [ret    |-> <<id>>,
         threw  |-> FALSE,
         userID |-> <<id>>,
         file   |-> w.file,
         probed |-> TRUE,
         keys   |-> fp.keys,
         read   |-> read,
         wrote  |-> IF w.ok THEN "ok" ELSE "error",
         log    |-> IF w.ok THEN log
                    ELSE Append(log, "Error al guardar ID en archivo:")]

\* A variant of ComputeAndSave without the try block around writeFileSync:
\* a failing write raises to the caller.
ComputeAndSave_NoCatch(f, dirWritable, os, ok, read, log) ==
    LET fp == Fingerprint(os, ok)
        w  == writeFileSync(f, dirWritable, fp.id, StorageMode)
    IN  [ret    |-> IF w.ok THEN <<fp.id>> ELSE null,
         threw  |-> ~w.ok,
         userID |-> <<fp.id>>,
         file   |-> w.file,
         probed |-> TRUE,
         keys   |-> fp.keys,
         read   |-> read,
         wrote  |-> IF w.ok THEN "ok" ELSE "error",
         log    |-> log]

\* Lines 151-168 of generateID: collect, serialize, hash, try to save.
ComputeAndSave(f, dirWritable, os, ok, read, log) ==
    LET fp == Fingerprint(os, ok)
        w  == writeFileSync(f, dirWritable, fp.id, StorageMode)
    IN  [ret    |-> <<fp.id>>,
         threw  |-> FALSE,
         userID |-> <<fp.id>>,
         file   |-> w.file,
         probed |-> TRUE,
         keys   |-> fp.keys,
         read   |-> read,
         wrote  |-> IF w.ok THEN "ok" ELSE "error",
         log    |-> IF w.ok THEN log
                    ELSE Append(log, "Error al guardar ID en archivo:")]

\* What generateID returns when it has read the stored value.
Stored(f, data) ==
    [ret    |-> <<data>>,
     threw  |-> FALSE,
     userID |-> <<data>>,
     file   |-> f,
     probed |-> FALSE,
     keys   |-> <<>>,
     read   |-> "ok",
     wrote  |-> "none",
     log    |-> <<>>]

\* A variant of generateID that trims the stored value.
DoGenerateID_Trim(f, dirWritable, os, ok) ==
    IF existsSync(f)
    THEN LET r == readFileSync(f)
         IN  IF r.ok
             THEN Stored(f, trim(r.data))
             ELSE ComputeAndSave(f, dirWritable, os, ok, "error",
                                 <<"Error leyendo ID almacenado:">>)
    ELSE ComputeAndSave(f, dirWritable, os, ok, "none", <<>>)

\* A variant of generateID that does not look for a stored value.
DoGenerateID_AlwaysCompute(f, dirWritable, os, ok) ==
    ComputeAndSave(f, dirWritable, os, ok, "none", <<>>)

\* A variant of generateID that returns the stored value and brings the file
\* up to date with the machine's digest.
DoGenerateID_Resave(f, dirWritable, os, ok) ==
    IF existsSync(f)
    THEN LET r == readFileSync(f)
         IN  IF r.ok
             THEN [Stored(f, r.data) EXCEPT
                       !.file = writeFileSync(f, dirWritable,
                                    Fingerprint(os, ok).id, StorageMode).file]
             ELSE ComputeAndSave(f, dirWritable, os, ok, "error",
                                 <<"Error leyendo ID almacenado:">>)
    ELSE ComputeAndSave(f, dirWritable, os, ok, "none", <<>>)

\* A variant of generateID without the try block around the read: a failing
\* read raises to the caller.
DoGenerateID_NoCatchOnRead(f, dirWritable, os, ok) ==
    IF existsSync(f)
    THEN LET r == readFileSync(f)
         IN  IF r.ok
             THEN Stored(f, r.data)
             ELSE [Stored(f, "") EXCEPT !.ret = null, !.threw = TRUE,
                                        !.read = "error"]
    ELSE ComputeAndSave(f, dirWritable, os, ok, "none", <<>>)

\* generateID, lines 140-169.
DoGenerateID(f, dirWritable, os, ok) ==
    IF existsSync(f)
    THEN LET r == readFileSync(f)
         IN  IF r.ok
             THEN Stored(f, r.data)
             ELSE ComputeAndSave(f, dirWritable, os, ok, "error",
                                 <<"Error leyendo ID almacenado:">>)
    ELSE ComputeAndSave(f, dirWritable, os, ok, "none", <<>>)

\* A variant of verifyID without the test for an empty stored value.
DoVerifyID_NoEmptyCheck(f) ==
    IF ~existsSync(f)
    THEN [valid |-> FALSE, threw |-> FALSE, read |-> "none", log |-> <<>>]
    ELSE LET r == readFileSync(f)
         IN  IF ~r.ok
             THEN [valid |-> FALSE, threw |-> FALSE, read |-> "error",
                   log |-> <<"Error verificando ID:">>]
             ELSE [valid |-> TRUE, threw |-> FALSE, read |-> "ok", log |-> <<>>]

\* verifyID, lines 175-189.
DoVerifyID(f) ==
    IF ~existsSync(f)
    THEN [valid |-> FALSE, threw |-> FALSE, read |-> "none", log |-> <<>>]
    ELSE LET r == readFileSync(f)
         IN  IF ~r.ok
             THEN [valid |-> FALSE, threw |-> FALSE, read |-> "error",
                   log |-> <<"Error verificando ID:">>]
             ELSE IF r.data = ""
             THEN [valid |-> FALSE, threw |-> FALSE, read |-> "ok", log |-> <<>>]
             ELSE [valid |-> TRUE, threw |-> FALSE, read |-> "ok", log |-> <<>>]

(***************************************************************************)
(* State.                                                                  *)
(***************************************************************************)
VARIABLES
    platform,      \* os.platform() of the machine
    probeOk,       \* probeOk[i]: the platform's i-th probe command succeeds
    totalmem,      \* os.totalmem()
    homeWritable,  \* files can be created in the home directory
    file,          \* the storage file
    userID,        \* this.userID of the generator: null or <<string>>
    call,          \* what the last call of a method did
    since          \* what happened to file and machine since the last resolve

vars == <<platform, probeOk, totalmem, homeWritable, file, userID, call, since>>

\* The state of getNetworkMACs taken on its own.
VARIABLES
    interfaces,    \* os.networkInterfaces(), in its current enumeration order
    macsCall,      \* what the last call of getNetworkMACs found and returned
    firstMacs      \* what the first call of getNetworkMACs returned

macVars == <<interfaces, macsCall, firstMacs>>

NoMacsCall == [op |-> "none", pre |-> <<>>, ret |-> <<>>, id |-> ""]

MacsIdle == interfaces = <<>> /\ macsCall = NoMacsCall /\ firstMacs = <<>>

\* The state of a GenerateID instance and of its running generateUnique call.
VARIABLES
    maxLength,     \* this.maxLength
    pc,            \* "idle", or where the running generateUnique call is
    collection,    \* generateUnique's argument collection
    options,       \* generateUnique's argument options
    idField,       \* generateUnique's argument idField
    newId,         \* generateUnique's newId: null or <<string>>
    attempts,      \* generateUnique's attempts
    generated,     \* the calls of generate the running call has made
    idCall         \* what the last completed call of a method did

idVars == <<maxLength, pc, collection, options, idField, newId, attempts,
            generated, idCall>>

NoOptions ==
    [includeTimestamp |-> TRUE, includeSpecialChars |-> FALSE,
     useUppercase |-> TRUE]

NoCollection == [kind |-> "other", items |-> <<>>]

NoIdCall ==
    [op |-> "none", ret |-> null, threw |-> FALSE, found |-> FALSE,
     id |-> "", collection |-> NoCollection, idField |-> "id",
     options |-> NoOptions, maxBefore |-> 0, attempts |-> 0, generated |-> 0]

IdIdle ==
    /\ maxLength = 0 /\ pc = "idle" /\ collection = NoCollection
    /\ options = NoOptions /\ idField = "id" /\ newId = null
    /\ attempts = 0 /\ generated = 0 /\ idCall = NoIdCall

\* Two generateID calls that run at the same time, each in a process of its
\* own, on the machine and the storage file of the variables above.
VARIABLES
    atomicWrite,   \* fs.writeFileSync changes the file in one step
    procPc,        \* procPc[p]: where the call of process p is
    procId,        \* procId[p]: this.userID of process p, null or <<string>>
    procRet,       \* procRet[p]: what the call returned, null or <<string>>
    procSaw        \* procSaw[p]: fs.existsSync was true for process p

raceVars == <<atomicWrite, procPc, procId, procRet, procSaw>>

RaceIdle ==
    /\ atomicWrite = TRUE /\ procPc = <<>> /\ procId = <<>>
    /\ procRet = <<>> /\ procSaw = <<>>

\* The state of GitHubUrlParser's callers.
VARIABLES
    url,           \* the URL given to the parser
    urlCall        \* what the parser's methods returned for it

urlVars == <<url, urlCall>>

NoUrlCall == [op |-> "none", res |-> <<>>, src |-> <<>>, via |-> ""]

UrlIdle == url = "" /\ urlCall = NoUrlCall

\* The variables the generator's operations leave alone.
others == <<macVars, idVars, raceVars, urlVars>>

os == OsOf(platform, totalmem)

NoCall ==
    [op |-> "none", ret |-> null, valid |-> FALSE, threw |-> FALSE,
     probed |-> FALSE, keys |-> <<>>, read |-> "none", wrote |-> "none",
     log |-> <<>>, pre |-> NoFile, prevRet |-> null, since |-> {}]

Init ==
    /\ platform \in Platforms
    /\ probeOk \in {ok \in [1..NumCommands(platform) -> BOOLEAN] :
                       Cardinality({i \in DOMAIN ok : ~ok[i]}) <= MaxFailing}
    /\ totalmem \in MemSizes
    /\ homeWritable \in BOOLEAN
    /\ file = NoFile
    /\ userID = null
    /\ call = NoCall
    /\ since = {}
    /\ MacsIdle
    /\ IdIdle
    /\ RaceIdle
    /\ UrlIdle

(***************************************************************************)
(* The program's operations.                                               *)
(***************************************************************************)
generateID ==
    LET r == DoGenerateID(file, homeWritable, os, probeOk)
    IN  /\ file' = r.file
        /\ userID' = r.userID
        /\ call' = [op |-> "generateID", ret |-> r.ret, valid |-> FALSE,
                    threw |-> r.threw, probed |-> r.probed, keys |-> r.keys,
                    read |-> r.read, wrote |-> r.wrote, log |-> r.log,
                    pre |-> file, prevRet |-> userID, since |-> since]
        /\ since' = {}
        /\ UNCHANGED <<platform, probeOk, totalmem, homeWritable>>
        /\ UNCHANGED others

\* getUniqueUserID: generateID on a generator constructed for the call.
getUniqueUserID == generateID

verifyID ==
    LET r == DoVerifyID(file)
    IN  /\ call' = [NoCall EXCEPT !.op = "verifyID", !.valid = r.valid,
                                  !.threw = r.threw, !.read = r.read,
                                  !.log = r.log, !.pre = file,
                                  !.prevRet = userID, !.since = since]
        /\ UNCHANGED <<platform, probeOk, totalmem, homeWritable, file,
                       userID, since>>
        /\ UNCHANGED others

(***************************************************************************)
(* The environment.                                                        *)
(***************************************************************************)
DeleteFile ==
    /\ file.exists
    /\ file' = NoFile
    /\ since' = since \cup {"del"}
    /\ call' = NoCall
    /\ UNCHANGED <<platform, probeOk, totalmem, homeWritable, userID>>
    /\ UNCHANGED others

ExternalWrite ==
    \E c \in ExternalContents, m \in FileModes :
        /\ file' = [exists |-> TRUE, content |-> c,
                    mode |-> IF file.exists THEN file.mode ELSE m]
        /\ file' # file
        /\ since' = since \cup {"mod"}
        /\ call' = NoCall
        /\ UNCHANGED <<platform, probeOk, totalmem, homeWritable, userID>>
        /\ UNCHANGED others

Chmod ==
    \E m \in FileModes :
        /\ file.exists
        /\ m # file.mode
        /\ file' = [file EXCEPT !.mode = m]
        /\ since' = since \cup {"mod"}
        /\ call' = NoCall
        /\ UNCHANGED <<platform, probeOk, totalmem, homeWritable, userID>>
        /\ UNCHANGED others

ChmodHome ==
    /\ homeWritable' = ~homeWritable
    /\ call' = NoCall
    /\ UNCHANGED <<platform, probeOk, totalmem, file, userID, since>>
    /\ UNCHANGED others

HardwareChange ==
    \E m \in MemSizes :
        /\ m # totalmem
        /\ totalmem' = m
        /\ since' = since \cup {"hw"}
        /\ call' = NoCall
        /\ UNCHANGED <<platform, probeOk, homeWritable, file, userID>>
        /\ UNCHANGED others

Next ==
    \/ generateID
    \/ getUniqueUserID
    \/ verifyID
    \/ DeleteFile
    \/ ExternalWrite
    \/ Chmod
    \/ ChmodHome
    \/ HardwareChange

Spec == Init /\ [][Next]_<<vars, others>>

(***************************************************************************)
(* Properties.  In a state reached by a call, `call' holds what the call   *)
(* did, call.pre the storage file it found, call.prevRet the value the     *)
(* previous resolve returned and call.since what happened in between; the  *)
(* machine and the home directory are as the call found them.              *)
(***************************************************************************)
Resolved == call.op = "generateID"

\* The digest of the machine's fingerprint.
MachineDigest == Fingerprint(os, probeOk).id

\* The info fields of the probe commands that fail on the machine.
FailingFields ==
    {Commands(platform)[i].field : i \in {j \in DOMAIN probeOk : ~probeOk[j]}}

KeySet(keys) == {keys[i] : i \in DOMAIN keys}

\* C1: if the storage file exists, is readable and holds non-empty content,
\* resolve returns exactly that content, untrimmed, without collecting a
\* fingerprint and without writing the file.
C1_StoredValueReturned ==
    (Resolved /\ call.pre.exists /\ Readable(call.pre.mode)
        /\ call.pre.content # "")
    => /\ ~call.threw
       /\ call.ret = <<call.pre.content>>
       /\ ~call.probed
       /\ call.wrote = "none"
       /\ file = call.pre

C1_Witness ==
    /\ Resolved
    /\ call.pre.exists /\ Readable(call.pre.mode)
    /\ call.pre.content = "abc123\n"
    /\ call.ret = <<"abc123\n">>
    /\ ~call.probed

\* C2: if no storage file exists and the home directory is writable,
\* resolve collects the fingerprint, hashes its serialization, creates the
\* file with mode 0600 and the returned value as its content, and returns
\* 64 lowercase hexadecimal characters.
C2_FirstResolveCreatesFile ==
    (Resolved /\ ~call.pre.exists /\ homeWritable)
    => /\ ~call.threw
       /\ call.probed
       /\ call.keys = Keys(getSystemInfo(os, probeOk))
       /\ call.ret = <<MachineDigest>>
       /\ IsHexDigest(call.ret[1])
       /\ call.wrote = "ok"
       /\ file = [exists |-> TRUE, content |-> call.ret[1],
                  mode |-> StorageMode]

C2_Witness ==
    /\ Resolved
    /\ ~call.pre.exists /\ homeWritable
    /\ file.exists /\ file.mode = StorageMode
    /\ call.ret = <<file.content>>
    /\ IsHexDigest(file.content)

\* C3 as stated: if the file exists after a first resolve and is neither
\* deleted nor modified from outside before a second resolve, the second
\* returns what the first returned, whatever the file's initial state and
\* even if the fingerprint has changed.
C3_Original ==
    (Resolved /\ call.prevRet # null /\ call.since \subseteq {"hw"}
        /\ call.pre.exists)
    => call.ret = call.prevRet

\* C3 as amended: the second resolve returns what the first returned if
\* the file can be read (it was absent and created by the first call, or
\* readable, empty or not), even if the fingerprint has changed; if the
\* file cannot be read, the two values agree when the fingerprint has not
\* changed.
C3_SecondResolveSameValue ==
    (Resolved /\ call.prevRet # null /\ call.since \subseteq {"hw"}
        /\ call.pre.exists)
    => /\ Readable(call.pre.mode)
          => (call.ret = call.prevRet /\ ~call.probed)
       /\ (~Readable(call.pre.mode) /\ call.since = {})
          => call.ret = call.prevRet

C3_Witness ==
    /\ Resolved
    /\ call.prevRet # null /\ call.since = {"hw"}
    /\ call.pre.exists /\ Readable(call.pre.mode)
    /\ IsHexDigest(call.pre.content)
    /\ call.ret = call.prevRet
    /\ call.ret # <<MachineDigest>>

\* C4: if the storage file exists but is empty, resolve treats the stored
\* value as absent: it collects the fingerprint and returns the digest,
\* never the empty string.
C4_EmptyFileTreatedAsAbsent ==
    (Resolved /\ call.pre.exists /\ Readable(call.pre.mode)
        /\ call.pre.content = "")
    => /\ call.probed
       /\ call.ret = <<MachineDigest>>
       /\ call.ret # <<"">>

\* C5 as stated: once the storage file exists, no resolve or verify call
\* changes its content, whatever the outcome of the read, probe and write
\* steps.
C5_Original ==
    (call.op \in {"generateID", "verifyID"} /\ call.pre.exists)
    => (file.exists /\ file.content = call.pre.content)

\* C5 as amended: verify never changes the storage file, and resolve does
\* not change an existing file that it can read or cannot write; when the
\* file exists, cannot be read and can be written, resolve replaces its
\* content by the digest it returns and keeps its mode.
C5_StoredValueKept ==
    (call.op \in {"generateID", "verifyID"} /\ call.pre.exists)
    => IF call.op = "generateID" /\ ~Readable(call.pre.mode)
          /\ Writable(call.pre.mode)
       THEN file = [call.pre EXCEPT !.content = call.ret[1]]
       ELSE file = call.pre

C5_Witness ==
    /\ Resolved
    /\ call.pre.exists /\ Readable(call.pre.mode)
    /\ IsHexDigest(call.pre.content)
    /\ call.pre.content # MachineDigest
    /\ homeWritable
    /\ file = call.pre

C8_ProbeFailureOmitsField ==
    (Resolved /\ call.probed /\ FailingFields # {})
    => /\ ~call.threw
       /\ call.ret # null
       /\ IsHexDigest(call.ret[1])
       /\ KeySet(call.keys) \cap FailingFields = {}

C8_Witness ==
    /\ Resolved /\ call.probed
    /\ platform = "darwin"
    /\ FailingFields = {"serialNumber"}
    /\ "hardwareUUID" \in KeySet(call.keys)
    /\ "serialNumber" \notin KeySet(call.keys)
    /\ IsHexDigest(call.ret[1])

\* C9 as stated: verify returns false when the storage file does not exist
\* or is empty and true for every other state of the file; it never
\* collects a fingerprint and never writes the file.
C9_Original ==
    (call.op = "verifyID")
    => /\ call.valid <=> (call.pre.exists /\ call.pre.content # "")
       /\ ~call.probed
       /\ file = call.pre

\* C9 as amended: verify returns false when the storage file does not
\* exist, is empty or cannot be read, and true for every other state of the
\* file, whatever its content; it never throws, never collects a
\* fingerprint and never writes the file.
C9_VerifyReportsStoredValue ==
    (call.op = "verifyID")
    => /\ call.valid <=> (call.pre.exists /\ Readable(call.pre.mode)
                             /\ call.pre.content # "")
       /\ ~call.threw
       /\ ~call.probed
       /\ call.wrote = "none"
       /\ file = call.pre
       /\ userID = call.prevRet

C9_Witness ==
    /\ call.op = "verifyID"
    /\ call.valid
    /\ call.pre.content = "abc123\n"
    /\ file = call.pre

MaxIfaces == 3

InterfacePool ==
    { [name |-> "lo",
       addrs |-> << [mac |-> "00:00:00:00:00:00", internal |-> TRUE] >>],
      [name |-> "eth0",
       addrs |-> << [mac |-> "02:42:ac:11:00:02", internal |-> FALSE],
                    [mac |-> "02:42:ac:11:00:02", internal |-> FALSE] >>],
      [name |-> "wlan0",
       addrs |-> << [mac |-> "b8:27:eb:00:00:02", internal |-> FALSE] >>],
      [name |-> "tun0",
       addrs |-> << [mac |-> "00:00:00:00:00:00", internal |-> FALSE] >>],
      [name |-> "bond0",
       addrs |-> << [mac |-> "b8:27:eb:00:00:01", internal |-> FALSE],
                    [mac |-> "0a:00:27:00:00:00", internal |-> FALSE],
                    [mac |-> "f0:de:f1:00:00:09", internal |-> TRUE] >>] }

\* The enumerations of at most MaxIfaces distinct interfaces of the pool.
Enumerations ==
    UNION {{e \in [1..n -> InterfacePool] :
               \A i, j \in 1..n : e[i] = e[j] => i = j} : n \in 0..MaxIfaces}

Reverse(a) == [i \in 1..Len(a) |-> a[Len(a) + 1 - i]]

\* The digest of a machine whose interfaces are enumerated as ifs.
DigestWithInterfaces(ifs) ==
    CollectAndHash([OsOf("linux", 536870912) EXCEPT !.networkInterfaces = ifs],
                   [i \in 1..NumCommands("linux") |-> TRUE]).id

InitMACs ==
    /\ interfaces \in Enumerations
    /\ macsCall = NoMacsCall
    /\ firstMacs = <<>>
    /\ platform = "linux" /\ probeOk = <<>> /\ totalmem = 536870912
    /\ homeWritable = TRUE /\ file = NoFile /\ userID = null
    /\ call = NoCall /\ since = {}
    /\ IdIdle
    /\ RaceIdle
    /\ UrlIdle

CallGetNetworkMACs ==
    LET r == [op |-> "getNetworkMACs", pre |-> interfaces,
              ret |-> getNetworkMACs(interfaces),
              id |-> DigestWithInterfaces(interfaces)]
    IN  /\ macsCall' = r
        /\ firstMacs' = IF firstMacs = <<>> THEN <<r>> ELSE firstMacs
        /\ UNCHANGED <<interfaces, vars, idVars, raceVars, urlVars>>

\* The interfaces come in another order: two neighbours change places.
Reenumerate ==
    \E i \in 1..(Len(interfaces) - 1) :
        /\ interfaces' = [interfaces EXCEPT ![i] = interfaces[i + 1],
                                            ![i + 1] = interfaces[i]]
        /\ macsCall' = NoMacsCall
        /\ UNCHANGED <<firstMacs, vars, idVars, raceVars, urlVars>>

\* The entries of an interface come in the opposite order.
ReenumerateEntries ==
    \E i \in 1..Len(interfaces) :
        /\ Len(interfaces[i].addrs) > 1
        /\ interfaces' = [interfaces EXCEPT ![i].addrs = Reverse(@)]
        /\ interfaces' # interfaces
        /\ macsCall' = NoMacsCall
        /\ UNCHANGED <<firstMacs, vars, idVars, raceVars, urlVars>>

NextMACs ==
    \/ CallGetNetworkMACs
    \/ Reenumerate
    \/ ReenumerateEntries

SpecMACs == InitMACs /\ [][NextMACs]_<<vars, others>>

\* The entries of the enumeration ifs whose MAC is to be returned.
Eligible(ifs) ==
    UNION {{<<i, j>> : j \in {k \in DOMAIN ifs[i].addrs :
                                 /\ ~ifs[i].addrs[k].internal
                                 /\ ifs[i].addrs[k].mac # "00:00:00:00:00:00"}}
           : i \in DOMAIN ifs}

Ascending(a) == \A i \in 1..(Len(a) - 1) : ~StrLess(a[i + 1], a[i])

\* C11: getNetworkMACs returns the MAC of every entry that is not internal
\* and not 00:00:00:00:00:00, once per entry, and nothing else, in ascending
\* order; after any change of the enumeration order of the same entries it
\* returns the same list, and the digest of the machine is the same.
C11_MacsSortedAndOrderIndependent ==
    (macsCall.op = "getNetworkMACs")
    => /\ \A m \in {macsCall.ret[i] : i \in DOMAIN macsCall.ret}
                \cup {macsCall.pre[e[1]].addrs[e[2]].mac :
                         e \in Eligible(macsCall.pre)} :
            Cardinality({i \in DOMAIN macsCall.ret : macsCall.ret[i] = m})
              = Cardinality({e \in Eligible(macsCall.pre) :
                                macsCall.pre[e[1]].addrs[e[2]].mac = m})
       /\ Ascending(macsCall.ret)
       /\ macsCall.ret = firstMacs[1].ret
       /\ macsCall.id = firstMacs[1].id

C11_Witness ==
    /\ macsCall.op = "getNetworkMACs"
    /\ macsCall.pre # firstMacs[1].pre
    /\ MacsOfInterfaces(macsCall.pre) # MacsOfInterfaces(firstMacs[1].pre)
    /\ Len(macsCall.ret) = 4
    /\ macsCall.ret = firstMacs[1].ret
    /\ macsCall.id = firstMacs[1].id

(***************************************************************************)
(* GenerateID (src/generate-id/generateID.mjs).                            *)
(*                                                                         *)
(* The outcomes of Math.random(), Date.now() and crypto.getRandomValues    *)
(* are inputs of generate: rnd.roll is Math.floor(Math.random() *          *)
(* maxLength), rnd.mul and rnd.add give the index Math.floor(Math.random() *)
(* * chars.length) drawn for the i-th character as (mul * i + add) modulo  *)
(* chars.length, rnd.stamp is the last three characters of                 *)
(* Date.now().toString(36), rnd.crypto tells whether the global crypto     *)
(* exists and rnd.byte is the byte it returns.                             *)
(***************************************************************************)
minLength == 4

DefaultMaxLength == 8

maxAttempts == 100

\* The constructor: options.maxLength || 8, with 0 for a missing or zero
\* option.
ConstructMaxLength(configured) ==
    IF configured = 0 THEN DefaultMaxLength ELSE configured

Max(a, b) == IF a >= b THEN a ELSE b

Min(a, b) == IF a <= b THEN a ELSE b

\* String.prototype.substring(from, to) with 0-based arguments: both are
\* clamped to 0..length and exchanged when from > to.
substring(s, from, to) ==
    LET a == Max(0, Min(from, Len(s)))
        b == Max(0, Min(to, Len(s)))
    IN  SubSeq(s, Min(a, b) + 1, Max(a, b))

\* String.prototype.charAt(i) with a 0-based index.
charAt(s, i) == IF i >= 0 /\ i < Len(s) THEN SubSeq(s, i + 1, i + 1) ELSE ""

IdChars(opts) ==
    "abcdefghijklmnopqrstuvwxyz0123456789"
        \o (IF opts.useUppercase THEN "ABCDEFGHIJKLMNOPQRSTUVWXYZ" ELSE "")
        \o (IF opts.includeSpecialChars THEN "_-.$#@!%&" ELSE "")

FinalLength(maxLen, roll) ==
    Max(minLength, Min(maxLen, roll + minLength))

\* The loop of lines 33-35: n characters drawn from chars.
RECURSIVE RandomPart(_, _, _, _)
RandomPart(chars, rnd, i, n) ==
    IF i >= n THEN ""
    ELSE charAt(chars, (rnd.mul * i + rnd.add) % Len(chars))
            \o RandomPart(chars, rnd, i + 1, n)

\* Lines 38-45: the time stamp's last three characters are put in the
\* middle of the random part.
MixTimestamp(id, finalLength, stamp) ==
    substring(id, 0, finalLength \div 2)
        \o stamp
        \o substring(id, finalLength \div 2, finalLength - 3)

\* Lines 48-53: a character chosen by the crypto byte goes in front and the
\* last character is dropped.
MixCrypto(id, chars, byte) ==
    charAt(chars, byte % Len(chars)) \o substring(id, 0, Len(id) - 1)

generate(maxLen, opts, rnd) ==
    LET chars == IdChars(opts)
        finalLength == FinalLength(maxLen, rnd.roll)
        id1 == RandomPart(chars, rnd, 0, finalLength)
        id2 == IF opts.includeTimestamp
               THEN MixTimestamp(id1, finalLength, rnd.stamp) ELSE id1
    IN  IF rnd.crypto THEN MixCrypto(id2, chars, rnd.byte) ELSE id2

(***************************************************************************)
(* exists.  An element of a collection is [t, v, fields]: a string v       *)
(* (t = "str"), an object with the properties fields, a sequence of        *)
(* <<name, value>> (t = "obj"), or null (t = "null").  A collection is an  *)
(* array of elements (kind "array", items a sequence of elements), an      *)
(* object (kind "map", items a sequence of [k, v] with v an element) or    *)
(* neither (kind "other").                                                 *)
(***************************************************************************)
Str(v) == [t |-> "str", v |-> v, fields |-> <<>>]

Obj(fields) == [t |-> "obj", v |-> "", fields |-> fields]

Null == [t |-> "null", v |-> "", fields |-> <<>>]

\* item[field] === id for an item that is not null: a string has no such
\* property, an object may have.
FieldIs(item, field, id) ==
    /\ item.t = "obj"
    /\ \E j \in DOMAIN item.fields :
          item.fields[j][1] = field /\ item.fields[j][2] = id

\* collection.some(item => item[idField] === id): the items are visited in
\* order up to the first match; reading a property of null throws.
SomeItemHasId(items, field, id) ==
    LET hits  == {j \in DOMAIN items : FieldIs(items[j], field, id)}
        nulls == {j \in DOMAIN items : items[j].t = "null"}
        threw == \E n \in nulls : \A h \in hits : n < h
    IN  [threw |-> threw, ret |-> ~threw /\ hits # {}]

\* A variant of exists that does not look at the keys of a map.
exists_ValuesOnly(id, coll, field) ==
    IF coll.kind = "array"
    THEN IF coll.items # <<>> /\ coll.items[1].t \in {"obj", "null"}
         THEN SomeItemHasId(coll.items, field, id)
         ELSE [threw |-> FALSE,
               ret |-> \E j \in DOMAIN coll.items :
                           coll.items[j].t = "str" /\ coll.items[j].v = id]
    ELSE IF coll.kind = "map"
    THEN [threw |-> FALSE,
          ret |-> \E j \in DOMAIN coll.items :
                      FieldIs(coll.items[j].v, field, id)]
    ELSE [threw |-> FALSE, ret |-> FALSE]

exists(id, coll, field) ==
    IF coll.kind = "array"
    THEN IF coll.items # <<>> /\ coll.items[1].t \in {"obj", "null"}
         THEN SomeItemHasId(coll.items, field, id)
         ELSE [threw |-> FALSE,
               ret |-> \E j \in DOMAIN coll.items :
                           coll.items[j].t = "str" /\ coll.items[j].v = id]
    ELSE IF coll.kind = "map"
    THEN [threw |-> FALSE,
          ret |-> \/ \E j \in DOMAIN coll.items : coll.items[j].k = id
                  \/ \E j \in DOMAIN coll.items :
                        FieldIs(coll.items[j].v, field, id)]
    ELSE [threw |-> FALSE, ret |-> FALSE]

(***************************************************************************)
(* The inputs of the GenerateID instance.                                  *)
(***************************************************************************)
\* The largest configured options.maxLength; 0 stands for none.
MaxConfigured == 6

\* generateUnique is not called again once maxLength is above this.
MaxRaised == 8

OptionSets ==
    [includeTimestamp : BOOLEAN, includeSpecialChars : BOOLEAN,
     useUppercase : BOOLEAN]

Randoms(maxLen) ==
    [roll : 0..(maxLen - 1), mul : {0, 1}, add : {0}, stamp : {"k3z"},
     crypto : {FALSE}, byte : {0}]
        \cup [roll : 0..(maxLen - 1), mul : {0, 1}, add : {0},
              stamp : {"k3z"}, crypto : {TRUE}, byte : {0, 255}]

IdFields == {"id", "codigo"}

Collections ==
    { [kind |-> "array", items |-> <<>>],
      [kind |-> "array", items |-> <<Str("aaaa"), Str("abcd")>>],
      [kind |-> "array",
       items |-> <<Obj(<<<<"id", "aaaa">>, <<"nombre", "abcd">>>>),
                   Obj(<<<<"codigo", "abcd">>>>)>>],
      [kind |-> "map",
       items |-> << [k |-> "aaaa", v |-> Obj(<<<<"id", "x1">>>>)],
                    [k |-> "k2", v |-> Obj(<<<<"id", "abcd">>>>)],
                    [k |-> "k3", v |-> Str("zzzz")],
                    [k |-> "k4", v |-> Null] >>],
      [kind |-> "array",
       items |-> <<Obj(<<<<"id", "aaaa">>>>), Str("abcd")>>],
      [kind |-> "array",
       items |-> <<Str("abcd"), Obj(<<<<"id", "aaaa">>>>)>>],
      [kind |-> "array",
       items |-> <<Obj(<<<<"id", "aaaa">>>>), Null>>],
      NoCollection }

QueriedIds == {"aaaa", "abcd", "x1", "k2", "zzzz", "nombre"}

\* The random outcomes drawn in generateUnique: the shortest and the longest
\* roll, and a zero crypto byte.
UniqueRandoms(maxLen) ==
    {rnd \in Randoms(maxLen) : rnd.roll \in {0, maxLen - 1} /\ rnd.byte = 0}

\* The collections generateUnique is called with: those whose first element,
\* if any, is of the kind of the others.
UniqueCollections ==
    {c \in Collections :
        \A j \in DOMAIN c.items : c.kind = "array" /\ c.items[j].t # "null"
                                      => c.items[j].t = c.items[1].t}

\* The option sets generateUnique is called with.
UniqueOptionSets ==
    {NoOptions, [NoOptions EXCEPT !.includeTimestamp = FALSE]}

\* The resolver and getNetworkMACs are not used.
ResolverIdle ==
    /\ platform = "linux" /\ probeOk = <<>> /\ totalmem = 536870912
    /\ homeWritable = TRUE /\ file = NoFile /\ userID = null
    /\ call = NoCall /\ since = {}
    /\ MacsIdle

allVars == <<vars, others>>

InitID ==
    /\ maxLength \in {ConstructMaxLength(c) : c \in 0..MaxConfigured}
    /\ pc = "idle"
    /\ collection = NoCollection /\ options = NoOptions /\ idField = "id"
    /\ newId = null /\ attempts = 0 /\ generated = 0
    /\ idCall = NoIdCall
    /\ ResolverIdle
    /\ RaceIdle
    /\ UrlIdle

Generate ==
    /\ pc = "idle"
    /\ idCall = NoIdCall
    /\ \E opts \in OptionSets, rnd \in Randoms(maxLength) :
          idCall' = [NoIdCall EXCEPT !.op = "generate",
                                     !.ret = <<generate(maxLength, opts, rnd)>>,
                                     !.options = opts,
                                     !.maxBefore = maxLength]
    /\ UNCHANGED <<maxLength, pc, collection, options, idField, newId,
                   attempts, generated, vars, macVars, raceVars,
                   urlVars>>

Exists ==
    /\ pc = "idle"
    /\ idCall = NoIdCall
    /\ \E id \in QueriedIds, c \in Collections, f \in IdFields :
          LET r == exists(id, c, f)
          IN  idCall' = [NoIdCall EXCEPT !.op = "exists", !.threw = r.threw,
                                         !.found = r.ret, !.id = id,
                                         !.collection = c, !.idField = f,
                                         !.maxBefore = maxLength]
    /\ UNCHANGED <<maxLength, pc, collection, options, idField, newId,
                   attempts, generated, vars, macVars, raceVars,
                   urlVars>>

\* generateUnique is called: lines 88-90.
CallGenerateUnique ==
    /\ pc = "idle"
    /\ idCall = NoIdCall
    /\ maxLength <= MaxRaised
    /\ \E c \in UniqueCollections, opts \in UniqueOptionSets,
          f \in IdFields :
          /\ collection' = c
          /\ options' = opts
          /\ idField' = f
    /\ pc' = "loop"
    /\ newId' = null
    /\ attempts' = 0
    /\ generated' = 0
    /\ idCall' = [NoIdCall EXCEPT !.maxBefore = maxLength]
    /\ UNCHANGED <<maxLength, vars, macVars, raceVars,
                   urlVars>>

\* A variant of LoopAgain without the limit of attempts.
LoopAgain_NoLimit(found, a) == found

\* The condition of the do-while loop, line 95.
LoopAgain(found, a) == found /\ a < maxAttempts

\* What a completed generateUnique call leaves in idCall.
UniqueCall(ret, threw, a, g) ==
    [NoIdCall EXCEPT !.op = "generateUnique", !.ret = ret, !.threw = threw,
                     !.collection = collection, !.idField = idField,
                     !.options = options, !.maxBefore = idCall.maxBefore,
                     !.attempts = a, !.generated = g]

\* One turn of the do-while loop, lines 92-95; an exception of exists
\* ends the call.
Attempt ==
    /\ pc = "loop"
    /\ \E rnd \in UniqueRandoms(maxLength) :
          LET id == generate(maxLength, options, rnd)
              e  == exists(id, collection, idField)
          IN  IF e.threw
              THEN /\ pc' = "idle"
                   /\ idCall' = UniqueCall(null, TRUE, attempts + 1,
                                           generated + 1)
                   /\ newId' = null
                   /\ attempts' = 0
                   /\ generated' = 0
                   /\ collection' = NoCollection
                   /\ options' = NoOptions
                   /\ idField' = "id"
              ELSE /\ pc' = IF LoopAgain(e.ret, attempts + 1)
                            THEN "loop" ELSE "check"
                   /\ newId' = <<id>>
                   /\ attempts' = attempts + 1
                   /\ generated' = generated + 1
                   /\ UNCHANGED <<idCall, collection, options, idField>>
    /\ UNCHANGED <<maxLength, vars, macVars, raceVars,
                   urlVars>>

\* Lines 97-104: after the loop.
Finish ==
    /\ pc = "check"
    /\ IF attempts >= maxAttempts
       THEN /\ maxLength' = maxLength + 2
            /\ \E rnd \in UniqueRandoms(maxLength + 2) :
                  idCall' = UniqueCall(
                                <<generate(maxLength + 2, options, rnd)>>,
                                FALSE, attempts, generated + 1)
       ELSE /\ maxLength' = maxLength
            /\ idCall' = UniqueCall(newId, FALSE, attempts, generated)
    /\ pc' = "idle"
    /\ newId' = null
    /\ attempts' = 0
    /\ generated' = 0
    /\ collection' = NoCollection
    /\ options' = NoOptions
    /\ idField' = "id"
    /\ UNCHANGED <<vars, macVars, raceVars,
                   urlVars>>

\* The caller has taken the result of the last call.
Returned ==
    /\ pc = "idle"
    /\ idCall # NoIdCall
    /\ idCall' = NoIdCall
    /\ UNCHANGED <<maxLength, pc, collection, options, idField, newId,
                   attempts, generated, vars, macVars, raceVars,
                   urlVars>>

NextID ==
    \/ Returned
    \/ Generate
    \/ Exists
    \/ CallGenerateUnique
    \/ Attempt
    \/ Finish

\* A running call goes on running.
SpecID ==
    /\ InitID
    /\ [][NextID]_allVars
    /\ WF_allVars(Attempt)
    /\ WF_allVars(Finish)

\* C12: generateUnique returns an ID that is not in the collection: exists
\* is false of the returned ID, for every collection and every sequence of
\* random outcomes.
C12_GenerateUniqueIsUnique ==
    (idCall.op = "generateUnique" /\ ~idCall.threw)
    => ~exists(idCall.ret[1], idCall.collection, idCall.idField).ret

\* C13, for a configured maxLength of at least minLength: every ID that
\* generate returns has at least minLength and at most maxLength
\* characters, for every combination of options and every random outcome.
C13_LengthWithinLimits ==
    (idCall.op = "generate" /\ idCall.maxBefore >= minLength)
    => /\ Len(idCall.ret[1]) >= minLength
       /\ Len(idCall.ret[1]) <= idCall.maxBefore

\* C14: generateUnique terminates; its loop calls generate at most 100
\* times; when the loop ends with attempts at 100 the call raises maxLength
\* by 2 and calls generate once more, and when it ends earlier maxLength is
\* as it was and generate is not called again.
C14_GenerateUniqueTerminates ==
    /\ [](attempts <= maxAttempts /\ generated <= maxAttempts)
    /\ []((idCall.op = "generateUnique" /\ ~idCall.threw)
            => IF idCall.attempts = maxAttempts
               THEN /\ maxLength = idCall.maxBefore + 2
                    /\ idCall.generated = maxAttempts + 1
               ELSE /\ idCall.attempts < maxAttempts
                    /\ maxLength = idCall.maxBefore
                    /\ idCall.generated = idCall.attempts
                    /\ idCall.ret # null
                    /\ ~exists(idCall.ret[1], idCall.collection,
                               idCall.idField).ret)
    /\ (pc # "idle") ~> (pc = "idle")

C14_Witness ==
    /\ idCall.op = "generateUnique"
    /\ idCall.attempts = maxAttempts
    /\ idCall.generated = maxAttempts + 1
    /\ idCall.collection.items = <<Str("aaaa"), Str("abcd")>>
    /\ maxLength = idCall.maxBefore + 2

\* Whether id is in the collection: an element of the array, the value of
\* the property field of an object of the array, a key of the map, or the
\* value of the property field of an object-valued entry of the map.
Present(id, coll, field) ==
    \/ /\ coll.kind = "array"
       /\ \E j \in DOMAIN coll.items :
             \/ coll.items[j].t = "str" /\ coll.items[j].v = id
             \/ /\ coll.items[j].t = "obj"
                /\ <<field, id>> \in {coll.items[j].fields[n] :
                                         n \in DOMAIN coll.items[j].fields}
    \/ /\ coll.kind = "map"
       /\ \E j \in DOMAIN coll.items :
             \/ coll.items[j].k = id
             \/ /\ coll.items[j].v.t = "obj"
                /\ <<field, id>> \in {coll.items[j].v.fields[n] :
                                         n \in DOMAIN coll.items[j].v.fields}

\* An array of strings or an array of objects, none of them null.
Uniform(coll) ==
    coll.kind = "array"
    => \/ \A j \in DOMAIN coll.items : coll.items[j].t = "str"
       \/ \A j \in DOMAIN coll.items : coll.items[j].t = "obj"

\* C15 as stated: exists returns true exactly when the ID is present in the
\* collection, for every array or object collection.
C15_Original ==
    (idCall.op = "exists")
    => /\ ~idCall.threw
       /\ idCall.found <=> Present(idCall.id, idCall.collection,
                                   idCall.idField)

\* C15 as amended: exists returns true exactly when the ID is present in the
\* collection, for every array of strings, every array of objects none of
\* which is null, and every object used as a map; for anything that is
\* neither an array nor an object it returns false.
C15_ExistsOnUniformCollections ==
    (idCall.op = "exists" /\ Uniform(idCall.collection))
    => /\ ~idCall.threw
       /\ idCall.found <=> Present(idCall.id, idCall.collection,
                                   idCall.idField)
       /\ idCall.collection.kind = "other" => ~idCall.found

C15_Witness ==
    /\ idCall.op = "exists"
    /\ idCall.collection.kind = "map"
    /\ idCall.id = "aaaa"
    /\ idCall.idField = "id"
    /\ idCall.found

(***************************************************************************)
(* Further properties of the resolver, under Spec.                         *)
(***************************************************************************)
\* The info fields of the probe commands that succeed on the machine.
SucceedingFields ==
    {Commands(platform)[i].field : i \in {j \in DOMAIN probeOk : probeOk[j]}}

\* C16: a failing probe removes only its own field from the fingerprint:
\* the field of every probe of the platform that succeeds, before or after
\* the failing one, is in the fingerprint that resolve hashes.
C16_OtherProbesStillContribute ==
    (Resolved /\ call.probed)
    => SucceedingFields \subseteq KeySet(call.keys)

\* C19: in every state of the storage file, verify returns true exactly
\* when a resolve call made in that state returns the stored content
\* without computing a fingerprint.
C19_VerifyAgreesWithResolve ==
    LET r == DoGenerateID(file, homeWritable, os, probeOk)
    IN  DoVerifyID(file).valid
          <=> (file.exists /\ ~r.probed /\ r.ret = <<file.content>>)

(***************************************************************************)
(* Two generateID calls at the same time, each in a process of its own     *)
(* (two programs calling getUniqueUserID), from a state without storage    *)
(* file.  A step is one call to the file system or the computation of the  *)
(* digest.  When atomicWrite is false fs.writeFileSync takes two steps:    *)
(* it opens the file, which creates or truncates it, and later writes the  *)
(* content.  The machine does not change while the calls run.              *)
(***************************************************************************)
Procs == {1, 2}

\* A variant of TryStored that takes an empty file for an absent one.
TryStored_RejectEmpty(f) ==
    LET r == readFileSync(f)
    IN  [returns |-> r.ok /\ r.data # "", data |-> r.data]

\* Lines 144-148: the stored content is returned as it is read; an
\* exception of the read is caught and the call goes on to compute.
TryStored(f) ==
    LET r == readFileSync(f)
    IN  [returns |-> r.ok, data |-> r.data]

InitRace ==
    /\ platform \in Platforms
    /\ probeOk \in {ok \in [1..NumCommands(platform) -> BOOLEAN] :
                       Cardinality({i \in DOMAIN ok : ~ok[i]}) <= MaxFailing}
    /\ totalmem \in MemSizes
    /\ homeWritable \in BOOLEAN
    /\ file = NoFile
    /\ userID = null /\ call = NoCall /\ since = {}
    /\ atomicWrite \in BOOLEAN
    /\ procPc = [p \in Procs |-> "start"]
    /\ procId = [p \in Procs |-> null]
    /\ procRet = [p \in Procs |-> null]
    /\ procSaw = [p \in Procs |-> FALSE]
    /\ MacsIdle /\ IdIdle /\ UrlIdle

raceFrame == <<platform, probeOk, totalmem, homeWritable, userID, call, since,
               atomicWrite, macVars, idVars, urlVars>>

\* Line 143: fs.existsSync.
CheckExists(p) ==
    /\ procPc[p] = "start"
    /\ procSaw' = [procSaw EXCEPT ![p] = existsSync(file)]
    /\ procPc' = [procPc EXCEPT ![p] = IF existsSync(file) THEN "read"
                                       ELSE "compute"]
    /\ UNCHANGED <<file, procId, procRet, raceFrame>>

\* Lines 144-148: fs.readFileSync and the return.
ReadStored(p) ==
    /\ procPc[p] = "read"
    /\ LET r == TryStored(file)
       IN  IF r.returns
           THEN /\ procId' = [procId EXCEPT ![p] = <<r.data>>]
                /\ procRet' = [procRet EXCEPT ![p] = <<r.data>>]
                /\ procPc' = [procPc EXCEPT ![p] = "done"]
           ELSE /\ procPc' = [procPc EXCEPT ![p] = "compute"]
                /\ UNCHANGED <<procId, procRet>>
    /\ UNCHANGED <<file, procSaw, raceFrame>>

\* Lines 152-159: the fingerprint and its digest.
Compute(p) ==
    /\ procPc[p] = "compute"
    /\ procId' = [procId EXCEPT ![p] = <<Fingerprint(os, probeOk).id>>]
    /\ procPc' = [procPc EXCEPT ![p] = "write"]
    /\ UNCHANGED <<file, procRet, procSaw, raceFrame>>

\* Lines 162-168 when fs.writeFileSync is one step.
WriteAtOnce(p) ==
    /\ procPc[p] = "write"
    /\ atomicWrite
    /\ file' = writeFileSync(file, homeWritable, procId[p][1],
                             StorageMode).file
    /\ procRet' = [procRet EXCEPT ![p] = procId[p]]
    /\ procPc' = [procPc EXCEPT ![p] = "done"]
    /\ UNCHANGED <<procId, procSaw, raceFrame>>

\* Line 163, first step of fs.writeFileSync: the file is opened, which
\* creates it or truncates it; an exception ends the call at line 168.
OpenTruncate(p) ==
    /\ procPc[p] = "write"
    /\ ~atomicWrite
    /\ LET w == writeFileSync(file, homeWritable, "", StorageMode)
       IN  /\ file' = w.file
           /\ IF w.ok
              THEN /\ procPc' = [procPc EXCEPT ![p] = "content"]
                   /\ UNCHANGED procRet
              ELSE /\ procPc' = [procPc EXCEPT ![p] = "done"]
                   /\ procRet' = [procRet EXCEPT ![p] = procId[p]]
    /\ UNCHANGED <<procId, procSaw, raceFrame>>

\* Line 163, second step of fs.writeFileSync: the content is written to the
\* open file; then lines 164-168.
WriteContent(p) ==
    /\ procPc[p] = "content"
    /\ file' = [file EXCEPT !.content = procId[p][1]]
    /\ procRet' = [procRet EXCEPT ![p] = procId[p]]
    /\ procPc' = [procPc EXCEPT ![p] = "done"]
    /\ UNCHANGED <<procId, procSaw, raceFrame>>

NextRace ==
    \E p \in Procs :
        \/ CheckExists(p)
        \/ ReadStored(p)
        \/ Compute(p)
        \/ WriteAtOnce(p)
        \/ OpenTruncate(p)
        \/ WriteContent(p)

SpecRace == InitRace /\ [][NextRace]_allVars

BothDone == \A p \in Procs : procPc[p] = "done"

\* C17 as stated: with atomic file system calls, every interleaving of two
\* first resolve calls ends with both callers returning the same digest and
\* with the storage file holding exactly that digest.
C17_Original ==
    (atomicWrite /\ BothDone)
    => /\ \A p \in Procs : procRet[p] = <<MachineDigest>>
       /\ file.exists
       /\ file.content = MachineDigest

\* C17 as amended: with atomic file system calls, every interleaving of two
\* first resolve calls ends with both callers returning the same digest;
\* the storage file then holds exactly that digest, with mode 0600, if the
\* home directory is writable, and does not exist if it is not.
C17_ConcurrentResolveSameDigest ==
    (atomicWrite /\ BothDone)
    => /\ \A p \in Procs : procRet[p] = <<MachineDigest>>
       /\ homeWritable
          => file = [exists |-> TRUE, content |-> MachineDigest,
                     mode |-> StorageMode]
       /\ ~homeWritable => file = NoFile

C17_Witness ==
    /\ atomicWrite /\ BothDone
    /\ \A p \in Procs : ~procSaw[p]
    /\ procRet[1] = procRet[2]
    /\ file.exists /\ file.content = MachineDigest

\* C18: when the write is not atomic, a caller that sees the file as
\* existing returns the content as it reads it, whatever it is: reading
\* after another caller has created or truncated the file and before that
\* caller has written the content, it returns the empty content instead of
\* the digest.
C18_ReaderReturnsWhatItReads ==
    [][\A p \in Procs :
          (~atomicWrite /\ procPc[p] = "read" /\ procPc'[p] # "read")
          => /\ procPc'[p] = "done"
             /\ procRet'[p] = <<file.content>>
             /\ (file.content # MachineDigest)
                => /\ file.content = ""
                   /\ \E q \in Procs \ {p} : procPc[q] = "content"]_allVars

C18_Witness ==
    /\ ~atomicWrite
    /\ procPc[1] = "done" /\ procSaw[1]
    /\ procRet[1] = <<"">>
    /\ procPc[2] = "content"
    /\ file.exists /\ file.content = ""

(***************************************************************************)
(* GitHubUrlParser (listed in src/generate-id/README.md).                  *)
(***************************************************************************)
startsWith(s, prefix) ==
    Len(s) >= Len(prefix) /\ SubSeq(s, 1, Len(prefix)) = prefix

endsWith(s, suffix) ==
    Len(s) >= Len(suffix)
        /\ SubSeq(s, Len(s) - Len(suffix) + 1, Len(s)) = suffix

DropPrefix(s, prefix) ==
    IF startsWith(s, prefix) THEN SubSeq(s, Len(prefix) + 1, Len(s)) ELSE s

\* s.replace(/\/+$/, ""): s without the slashes at its end.
StripSlashes(s) ==
    LET keep == {i \in 1..Len(s) : CharAt(s, i) # "/"}
    IN  IF keep = {} THEN ""
        ELSE SubSeq(s, 1, CHOOSE i \in keep : \A j \in keep : i >= j)

\* s.replace(/\.git$/, "").
StripDotGit(s) ==
    IF endsWith(s, ".git") THEN SubSeq(s, 1, Len(s) - 4) ELSE s

RECURSIVE Join(_, _)
Join(parts, sep) ==
    IF parts = <<>> THEN ""
    ELSE IF Len(parts) = 1 THEN parts[1]
    ELSE parts[1] \o sep \o Join(Tail(parts), sep)

\* new URL(s) for a string with a scheme: it throws when the host is empty
\* or has a space in it.
IsUrl(s) ==
    LET at == Matches(s, "://", 1)
    IN  /\ at # {}
        /\ LET start == (CHOOSE i \in at : \A j \in at : i <= j) + 3
               host  == split(SubSeq(s, start, Len(s)), "/")[1]
           IN  /\ host # ""
               /\ \A i \in 1..Len(host) : CharAt(host, i) # " "

\* #isValidUrl, lines 265-287 of the listing.
isValidUrl(u) ==
    /\ u # ""
    /\ \/ startsWith(u, "git@")
       \/ IsUrl(IF startsWith(u, "http") THEN u ELSE "https://" \o u)

\* The groups of a match, <<owner, repo, branch, path>> with "" for a group
\* that did not take part, or <<>> when the pattern does not match.  The
\* patterns are anchored and a group [^\/]+ is one whole, non-empty piece
\* between slashes.
AfterHost(c) ==
    LET a == IF startsWith(c, "https://") THEN DropPrefix(c, "https://")
             ELSE DropPrefix(c, "http://")
        b == DropPrefix(a, "www.")
    IN  IF startsWith(b, "github.com/")
        THEN <<DropPrefix(b, "github.com/")>> ELSE <<>>

MatchStandard(c) ==
    IF AfterHost(c) = <<>> THEN <<>>
    ELSE LET segs == split(AfterHost(c)[1], "/")
         IN  IF Len(segs) = 2 /\ segs[1] # "" /\ segs[2] # ""
             THEN <<segs[1], segs[2], "", "">>
             ELSE IF /\ Len(segs) >= 4
                     /\ segs[1] # "" /\ segs[2] # ""
                     /\ segs[3] \in {"tree", "blob"}
                     /\ segs[4] # ""
                     /\ Len(segs) > 4 => Join(SubSeq(segs, 5, Len(segs)), "/") # ""
             THEN <<segs[1], segs[2], segs[4],
                    Join(SubSeq(segs, 5, Len(segs)), "/")>>
             ELSE <<>>

MatchGitUrl(c) ==
    IF ~startsWith(c, "git@github.com:") THEN <<>>
    ELSE LET segs == split(DropPrefix(c, "git@github.com:"), "/")
         IN  IF Len(segs) = 2 /\ segs[1] # "" /\ segs[2] # ""
             THEN <<segs[1], segs[2], "", "">>
             ELSE <<>>

MatchHttpsClone(c) ==
    IF AfterHost(c) = <<>> THEN <<>>
    ELSE LET segs == split(AfterHost(c)[1], "/")
         IN  IF Len(segs) = 2 /\ segs[1] # "" /\ segs[2] # ""
             THEN <<segs[1], segs[2], "", "">>
             ELSE <<>>

\* What parse does: a result, or an error thrown.
ParseError(message) ==
    [ok |-> FALSE, error |-> message, baseUrl |-> "", details |-> <<>>,
     owner |-> "", repo |-> "", fullName |-> "", path |-> <<>>]

\* Lines 324-343 of the listing with the repository name as matched.
ResultOf_KeepDotGit(m) ==
    LET owner == m[1]
        repo == m[2]
        branch == m[3]
        path == m[4]
    IN  [ok |-> TRUE, error |-> "",
         baseUrl |-> "https://github.com/" \o owner \o "/" \o repo \o ".git",
         details |-> IF branch # ""
                     THEN <<[branch |-> branch,
                             folder |-> IF path # "" THEN <<path>> ELSE <<>>]>>
                     ELSE <<>>,
         owner |-> owner, repo |-> repo,
         fullName |-> owner \o "/" \o repo,
         path |-> IF path # ""
                  THEN (IF branch # "" THEN <<branch \o "/" \o path>>
                        ELSE <<path>>)
                  ELSE <<>>]

\* Lines 324-343 of the listing: the result built from a match.
ResultOf(m) ==
    LET owner == m[1]
        repo == StripDotGit(m[2])
        branch == m[3]
        path == m[4]
    IN  [ok |-> TRUE, error |-> "",
         baseUrl |-> "https://github.com/" \o owner \o "/" \o repo \o ".git",
         details |-> IF branch # ""
                     THEN <<[branch |-> branch,
                             folder |-> IF path # "" THEN <<path>> ELSE <<>>]>>
                     ELSE <<>>,
         owner |-> owner, repo |-> repo,
         fullName |-> owner \o "/" \o repo,
         path |-> IF path # ""
                  THEN (IF branch # "" THEN <<branch \o "/" \o path>>
                        ELSE <<path>>)
                  ELSE <<>>]

parse(u) ==
    IF u = ""
    THEN ParseError("La URL no puede estar vacia y debe ser una cadena de texto")
    ELSE IF ~isValidUrl(u) THEN ParseError("Formato de URL invalido")
    ELSE LET cleanUrl == StripSlashes(u)
         IN  IF MatchStandard(cleanUrl) # <<>>
             THEN ResultOf(MatchStandard(cleanUrl))
             ELSE IF MatchGitUrl(cleanUrl) # <<>>
             THEN ResultOf(MatchGitUrl(cleanUrl))
             ELSE IF MatchHttpsClone(cleanUrl) # <<>>
             THEN ResultOf(MatchHttpsClone(cleanUrl))
             ELSE ParseError("URL no reconocida como repositorio valido de GitHub")

\* toCloneUrl: the clone URLs, or the error parse throws.
toCloneUrl(u) ==
    LET parsed == parse(u)
    IN  [ok |-> parsed.ok,
         https |-> "https://github.com/" \o parsed.owner \o "/"
                      \o parsed.repo \o ".git",
         ssh |-> "git@github.com:" \o parsed.owner \o "/" \o parsed.repo
                    \o ".git",
         cli |-> "gh repo clone " \o parsed.owner \o "/" \o parsed.repo]

(***************************************************************************)
(* The parser as a state machine: a caller parses a URL or asks for its    *)
(* clone URLs, and may hand one of the URLs it got back to the parser.     *)
(***************************************************************************)
Schemes == {"https://", "http://", "", "https://www."}

Hosts == {"github.com", "gitlab.com", "git hub.com"}

Owners == {"usuario", "o w", "tree"}

Repos == {"repo", "repo.git", "repo.git.git", ".git", "my.repo?tab=1"}

Tails ==
    {"", "/", "//", "/tree/main", "/blob/main/src/a.js", "/tree", "/issues",
     "/tree/main/docs//x/"}

SshHosts == {"git@github.com:", "git@gitlab.com:"}

SshTails == {"", "/", "/tree/main"}

Urls ==
    {sc \o h \o "/" \o ow \o "/" \o rp \o tl :
        sc \in Schemes, h \in Hosts, ow \in Owners, rp \in Repos, tl \in Tails}
    \cup {sh \o ow \o "/" \o rp \o tl :
        sh \in SshHosts, ow \in Owners, rp \in Repos, tl \in SshTails}
    \cup {"", "http://", "github.com", "github.com/usuario"}

InitURL ==
    /\ url \in Urls
    /\ urlCall = NoUrlCall
    /\ ResolverIdle
    /\ MacsIdle /\ IdIdle /\ RaceIdle

urlFrame == UNCHANGED <<vars, macVars, idVars, raceVars>>

\* GitHubUrlParser.parse(url).
Parse ==
    /\ urlCall.op = "none"
    /\ urlCall' = [urlCall EXCEPT !.op = "parse", !.res = <<parse(url)>>]
    /\ UNCHANGED url
    /\ urlFrame

\* GitHubUrlParser.toCloneUrl(url).
ToCloneUrl ==
    /\ urlCall.op = "none"
    /\ urlCall' = [urlCall EXCEPT !.op = "toCloneUrl",
                                  !.res = <<toCloneUrl(url)>>]
    /\ UNCHANGED url
    /\ urlFrame

\* The caller goes on with a URL of the result; src keeps what parse gave
\* for the URL it came from.
Derived(next, how) ==
    /\ url' = next
    /\ urlCall' = [op |-> "none", res |-> <<>>, src |-> <<parse(url)>>,
                   via |-> how]
    /\ urlFrame

UseBaseUrl ==
    /\ urlCall.op = "parse"
    /\ urlCall.res[1].ok
    /\ Derived(urlCall.res[1].baseUrl, "baseUrl")

UseHttps ==
    /\ urlCall.op = "toCloneUrl"
    /\ urlCall.res[1].ok
    /\ Derived(urlCall.res[1].https, "https")

UseSsh ==
    /\ urlCall.op = "toCloneUrl"
    /\ urlCall.res[1].ok
    /\ Derived(urlCall.res[1].ssh, "ssh")

NextURL ==
    \/ Parse
    \/ ToCloneUrl
    \/ UseBaseUrl
    \/ UseHttps
    \/ UseSsh

SpecURL == InitURL /\ [][NextURL]_allVars

\* C20: a URL taken from the result of parse or toCloneUrl (baseUrl, https
\* or ssh) is itself accepted by parse, with the owner and the repo of the
\* URL it came from, and with details and path null.
C20_NormalisationRoundTrip ==
    (urlCall.op = "parse" /\ urlCall.src # <<>>) =>
        /\ urlCall.res[1].ok
        /\ urlCall.res[1].owner = urlCall.src[1].owner
        /\ urlCall.res[1].repo = urlCall.src[1].repo
        /\ urlCall.res[1].details = null
        /\ urlCall.res[1].path = null

\* The ssh clone URL of a URL that named a branch and a folder, and whose
\* repository name ended in .git, has been parsed.
C20_Witness ==
    /\ urlCall.op = "parse"
    /\ urlCall.src # <<>>
    /\ urlCall.via = "ssh"
    /\ urlCall.src[1].details # null
    /\ urlCall.src[1].path # null
    /\ endsWith(urlCall.src[1].repo, ".git")
    /\ urlCall.res[1].ok

=============================================================================
